---- MODULE Spec2Model ----
(***************************************************************************)
(* Budget selection page (SelectBudgetPageComponent.allBudgets) and the    *)
(* add-note command handler (AddNoteToBudgetHandler.execute) of the        *)
(* budgets feature library.                                                *)
(*                                                                         *)
(* JavaScript values are represented as follows.                           *)
(*   - A value that may be undefined/null is a record                      *)
(*     [defined |-> BOOLEAN, value |-> ...]; Undefined has value <<>>.     *)
(*   - A string is a sequence of one-character strings.                    *)
(*   - A plain object is a TLA+ record; adding a key to an object widens   *)
(*     the record's domain (SetKey).                                       *)
(*   - An object whose key order matters (the overview, iterated by        *)
(*     lodash flatMap) is a sequence of [key, isArray, items] entries.     *)
(***************************************************************************)
EXTENDS Integers, Sequences, FiniteSets, TLC

VARIABLES
  \* ---- AddNoteToBudgetHandler and the notes repository ----
  notes,          \* documents held by the repository, in creation order
  nextId,         \* the identifier the repository assigns next
  calls,          \* number of execute() invocations so far
  okLog,          \* <<orgId, budgetId>> of every execute() that returned
  lastCmd,        \* the command of the latest execute()
  lastOutcome,    \* what the latest execute() did: returned / threw
  repoLog,        \* repository accesses made by the latest execute()
  \* ---- SelectBudgetPageComponent ----
  overview,         \* signal: toSignal(_orgBudgets$$.get())
  sharedBudgets,    \* signal: toSignal(_budgets$$.get())
  overviewEmitted,  \* has _orgBudgets$$.get() emitted yet
  budgetsEmitted,   \* has _budgets$$.get() emitted yet
  allBudgets,       \* value of the computed signal allBudgets
  lastRun,          \* record of the latest evaluation of allBudgets
  \* ---- SelectBudgetPageComponent.setActive ----
  recordBudget,     \* record.budget of every BudgetRecord
  givenBudget,      \* record.budget as it was when the record was read
  updating,         \* record.updating of every BudgetRecord
  inFlight,         \* _budgets$$.update(toSave) calls that have not settled
  sent,             \* number of setActive() invocations so far
  lastEvent,        \* the latest setActive() call or update callback
  \* ---- BudgetTableComponent ----
  budgetsInput,     \* signal input `budgets`
  effectPending,    \* the constructor's effect is scheduled to run
  viewInit,         \* ngAfterViewInit has run
  overviewBudgets,  \* cached overview records
  dataSource,       \* MatTableDataSource: data, filter, paginator
  canPromote,       \* signal input `canPromote`
  doPromote,        \* number of doPromote emissions
  promoteLog,       \* promote() calls made with canPromote true / false
  lastDialog,       \* the latest dialog request
  dialogOpen,       \* is any dialog open
  navPending,       \* router navigations that have not settled
  navLog,           \* navigations requested, fulfilled, rejected
  closeAllCalls,    \* number of _dialog.closeAll() calls
  lastNav,          \* the latest goToDetail() call or navigation settlement
  translated        \* the latest translateStatus() call

noteVars == <<notes, nextId, calls, okLog, lastCmd, lastOutcome, repoLog>>
pageVars == <<overview, sharedBudgets, overviewEmitted, budgetsEmitted,
              allBudgets, lastRun>>
promoteVars == <<recordBudget, givenBudget, updating, inFlight, sent, lastEvent>>
tableVars == <<budgetsInput, effectPending, viewInit, overviewBudgets, dataSource,
               canPromote, doPromote, promoteLog, lastDialog, dialogOpen,
               navPending, navLog, closeAllCalls, lastNav>>
vars == <<noteVars, pageVars, promoteVars, tableVars, translated>>

----------------------------------------------------------------------------
(* Bounds *)

MaxCalls == 2
MaxShared == 2
MaxGroup == 2
MaxSetActive == 3
MaxPromotes == 2
MaxNavigations == 1

----------------------------------------------------------------------------
(* JavaScript values *)

Undefined == [defined |-> FALSE, value |-> <<>>]
Some(v) == [defined |-> TRUE, value |-> v]

\* Characters String.prototype.trim removes (those the inputs use).
Whitespace == {" ", "\t", "\n"}

SeqsUpTo(S, n) == UNION {[1..k -> S] : k \in 0..n}

RECURSIVE TrimStart(_)
TrimStart(s) ==
  IF s # <<>> /\ Head(s) \in Whitespace THEN TrimStart(Tail(s)) ELSE s

RECURSIVE TrimEnd(_)
TrimEnd(s) ==
  IF s # <<>> /\ s[Len(s)] \in Whitespace
    THEN TrimEnd(SubSeq(s, 1, Len(s) - 1))
    ELSE s

\* String.prototype.trim
Trim(s) == TrimEnd(TrimStart(s))

\* obj[key] = v
SetKey(obj, key, v) ==
  [k \in (DOMAIN obj) \cup {key} |-> IF k = key THEN v ELSE obj[k]]

\* delete obj[key]
DeleteKey(obj, key) == [k \in (DOMAIN obj) \ {key} |-> obj[k]]

----------------------------------------------------------------------------
(* AddNoteToBudgetHandler *)

ContentError == "Note content cannot be empty"
BudgetIdError == "Budget ID cannot be empty"
OrgIdError == "Organisation ID cannot be empty"
NoError == ""

\* Mutant: the whitespace test is left out (`!x` alone).
IsEmptyFieldNoTrim(x) == ~x.defined \/ x.value = <<>>

\* `!x || x.trim().length === 0` for a string-or-undefined x
IsEmptyField(x) ==
  \/ ~x.defined
  \/ x.value = <<>>
  \/ Len(Trim(x.value)) = 0

\* Mutant: the guards run in the order orgId, budgetId, content.
ValidateOrgIdFirst(command) ==
  IF IsEmptyField(command.orgId) THEN OrgIdError
  ELSE IF IsEmptyField(command.budgetId) THEN BudgetIdError
  ELSE IF IsEmptyField(command.content) THEN ContentError
  ELSE NoError

\* The three guards of execute(), in source order; NoError when all pass.
Validate(command) ==
  IF IsEmptyField(command.content) THEN ContentError
  ELSE IF IsEmptyField(command.budgetId) THEN BudgetIdError
  ELSE IF IsEmptyField(command.orgId) THEN OrgIdError
  ELSE NoError

\* Mutant: the budget segment repeats the organisation id.
BUDGET_NOTES_REPO_OrgTwice(orgId, budgetId) ==
  <<"o", "r", "g", "s", "/">> \o orgId
    \o <<"/", "b", "u", "d", "g", "e", "t", "s", "/">> \o orgId
    \o <<"/", "n", "o", "t", "e", "s">>

\* Mutant: the identifiers are trimmed before they enter the path.
BUDGET_NOTES_REPO_TrimmedIds(orgId, budgetId) ==
  <<"o", "r", "g", "s", "/">> \o Trim(orgId)
    \o <<"/", "b", "u", "d", "g", "e", "t", "s", "/">> \o Trim(budgetId)
    \o <<"/", "n", "o", "t", "e", "s">>

\* `orgs/${orgId}/budgets/${budgetId}/notes`
BUDGET_NOTES_REPO(orgId, budgetId) ==
  <<"o", "r", "g", "s", "/">> \o orgId
    \o <<"/", "b", "u", "d", "g", "e", "t", "s", "/">> \o budgetId
    \o <<"/", "n", "o", "t", "e", "s">>

\* Mutant: the content is stored as given.
NoteOfUntrimmed(command) == [note |-> command.content.value]

\* const note: Notes = { note: command.content.trim() }
NoteOf(command) == [note |-> Trim(command.content.value)]

\* const result = { id, noteId, budgetId, content }
ResultOf(command, createdId) ==
  [id |-> createdId,
   noteId |-> createdId,
   budgetId |-> command.budgetId,
   content |-> Some(Trim(command.content.value))]

\* Mutant: the rejection is caught and replaced by the handler's own error.
OnCreateRejectedWrapped(e) == [status |-> "threw", error |-> "Failed to add note"]

\* What execute() does when `await notesRepo.create(note)` rejects with e:
\* there is no try/catch, so the rejection leaves execute() as it is.
OnCreateRejected(e) == [status |-> "threw", error |-> e]

\* How many times execute() invokes create for one command.
CreateInvocations(rejected) == 1

NoResult == [id |-> 0, noteId |-> 0, budgetId |-> Undefined, content |-> Undefined]
NoCommand == [orgId |-> Undefined, budgetId |-> Undefined, content |-> Undefined]
NoRepoAccess ==
  [getRepository |-> 0, create |-> 0, path |-> <<>>, response |-> "none",
   createdId |-> 0]

\* Inputs of execute(): missing, empty, whitespace-only, plain and padded.
OrgIds ==
  {Undefined, Some(<<>>), Some(<<" ", " ">>),
   Some(<<"o", "1">>), Some(<<"o", "2">>), Some(<<" ", "o", "1">>)}
BudgetIds ==
  {Undefined, Some(<<>>), Some(<<"\t">>),
   Some(<<"b", "1">>), Some(<<"b", "2">>), Some(<<"b", "1", " ">>)}
Contents ==
  {Undefined, Some(<<>>), Some(<<" ", " ">>), Some(<<"\n">>),
   Some(<<"x">>), Some(<<" ", "h", "i", " ">>), Some(<<"h", " ", "i">>)}
Commands == [orgId : OrgIds, budgetId : BudgetIds, content : Contents]

\* Errors the repository's create may reject with.
RepoErrors == {"unavailable", "permission-denied"}
RepoResponses == {"created"} \cup RepoErrors

\* The documents of the collection at `path`, in creation order.
Collection(path) == SelectSeq(notes, LAMBDA d : d.path = path)

\* What the repository may answer to the create of `command`: nothing when
\* execute() never reaches it.
ResponsesTo(command) ==
  IF Validate(command) = NoError THEN RepoResponses ELSE {"none"}

\* Mutant: the repository is fetched before the guards run.
AccessOnRejectEager(command) == [NoRepoAccess EXCEPT !.getRepository = 1]

\* Repository accesses of a call that a guard rejects: the guards throw
\* before getRepository and create.
AccessOnReject(command) == NoRepoAccess

\* execute(command, context, tools); `response` is what the repository
\* answers to its create.
execute(command, response) ==
  /\ calls < MaxCalls
  /\ calls' = calls + 1
  /\ lastCmd' = command
  /\ LET error == Validate(command) IN
     IF error # NoError
       THEN \* throw new Error(...): nothing after the guard runs
            /\ lastOutcome' = [status |-> "threw", error |-> error,
                               result |-> NoResult]
            /\ repoLog' = AccessOnReject(command)
            /\ UNCHANGED <<notes, nextId, okLog>>
       ELSE LET path == BUDGET_NOTES_REPO(command.orgId.value,
                                          command.budgetId.value)
                note == NoteOf(command)
            IN
            IF response \in RepoErrors
              THEN LET out == OnCreateRejected(response) IN
                   /\ lastOutcome' = [status |-> out.status,
                                      error |-> out.error,
                                      result |-> NoResult]
                   /\ repoLog' = [getRepository |-> 1,
                                  create |-> CreateInvocations(TRUE),
                                  path |-> path, response |-> response,
                                  createdId |-> 0]
                   /\ UNCHANGED <<notes, nextId, okLog>>
              ELSE \* the repository stores the document under a fresh id
                   /\ notes' = Append(notes, [path |-> path, id |-> nextId,
                                              note |-> note.note])
                   /\ nextId' = nextId + 1
                   /\ okLog' = Append(okLog, <<command.orgId, command.budgetId>>)
                   /\ lastOutcome' = [status |-> "returned", error |-> NoError,
                                      result |-> ResultOf(command, nextId)]
                   /\ repoLog' = [getRepository |-> 1,
                                  create |-> CreateInvocations(FALSE),
                                  path |-> path, response |-> response,
                                  createdId |-> nextId]
  /\ UNCHANGED <<pageVars, promoteVars, tableVars, translated>>

InitNote ==
  /\ notes = <<>>
  /\ nextId = 1
  /\ calls = 0
  /\ okLog = <<>>
  /\ lastCmd = NoCommand
  /\ lastOutcome = [status |-> "none", error |-> NoError, result |-> NoResult]
  /\ repoLog = NoRepoAccess

NextNote == \E command \in Commands : \E response \in ResponsesTo(command) :
              execute(command, response)

----------------------------------------------------------------------------
(* SelectBudgetPageComponent: overview, sharedBudgets, allBudgets *)

\* An own enumerable property of the overview object whose value is an array.
Group(key, items) == [key |-> key, isArray |-> TRUE, items |-> items]

\* { inUse: [...], underConstruction: [...], archived: [...] } in the key
\* order of the literal the component is constructed with.
OverviewObject(inUse, underConstruction, archived) ==
  <<Group("inUse", inUse),
    Group("underConstruction", underConstruction),
    Group("archived", archived)>>

\* initialValue of the overview signal
OverviewInitial == OverviewObject(<<>>, <<>>, <<>>)

\* initialValue of the sharedBudgets signal
SharedBudgetsInitial == <<>>

\* The value stored under `key` of an overview object.
Prop(object, key) ==
  LET i == CHOOSE j \in DOMAIN object : object[j].key = key IN object[i].items

\* Mutant: each value's elements are put in front of those gathered so far.
RECURSIVE flatMapPrepending(_)
flatMapPrepending(collection) ==
  IF collection = <<>> THEN <<>>
  ELSE flatMapPrepending(Tail(collection)) \o Head(collection).items

\* lodash flatMap(collection) with the default (identity) iteratee: the
\* values of the collection in iteration order, arrays flattened one level.
\* Every value carries `items`: its elements if it is an array, itself
\* otherwise.
RECURSIVE flatMap(_)
flatMap(collection) ==
  IF collection = <<>> THEN <<>>
  ELSE Head(collection).items \o flatMap(Tail(collection))

\* Mutant: an endYear already present is taken as the starting point.
EndYearFromPrevious(budget) ==
  (IF "endYear" \in DOMAIN budget THEN budget.endYear ELSE budget.startYear)
    + budget.duration - 1

\* budget.startYear + budget.duration - 1
EndYear(budget) == budget.startYear + budget.duration - 1

\* Mutant: an endYear already present is kept.
WithEndYearIfAbsent(budget) ==
  IF "endYear" \in DOMAIN budget THEN budget
  ELSE SetKey(budget, "endYear", budget.startYear + budget.duration - 1)

\* budget['endYear'] = ...; return budget;
WithEndYear(budget) == SetKey(budget, "endYear", EndYear(budget))

\* flatBudgets.map(cb): the array of what cb returns for each element.
MapBudgets(flatBudgets) ==
  [i \in DOMAIN flatBudgets |-> WithEndYear(flatBudgets[i])]

\* The sharedBudgets array as the map callback leaves it: the callback
\* assigns to the element objects themselves, which the array (and any array
\* nested in it) still holds.
AfterMap(budgets) ==
  [i \in DOMAIN budgets |->
     [isArray |-> budgets[i].isArray,
      items |-> [j \in DOMAIN budgets[i].items |->
                   WithEndYear(budgets[i].items[j])]]]

EmptyBudgets == [overview |-> <<>>, budgets |-> <<>>]

\* `!overview || !budgets`: objects and arrays are truthy, undefined/null not.
GuardFails(ov, budgets) == ~ov.defined \/ ~budgets.defined

\* One evaluation of the computed signal: `out` is the value returned,
\* `sharedAfter` the sharedBudgets value as the evaluation leaves it.
ComputeAllBudgets(ov, budgets) ==
  IF GuardFails(ov, budgets)
    THEN [out |-> EmptyBudgets, sharedAfter |-> budgets]
    ELSE [out |-> [overview |-> flatMap(ov.value),
                   budgets |-> MapBudgets(flatMap(budgets.value))],
          sharedAfter |-> Some(AfterMap(budgets.value))]

\* ---- inputs ----

BudgetRecords ==
  {[budget |-> [id |-> i], children |-> <<>>] : i \in {"r1", "r2"}}

Range(s) == {s[i] : i \in DOMAIN s}
NoRepeat(s) == \A i, j \in DOMAIN s : i # j => s[i] # s[j]

Groups == {s \in SeqsUpTo(BudgetRecords, MaxGroup) : NoRepeat(s)}

\* Every record belongs to at most one group.
OverviewValues ==
  {Undefined} \cup
  {Some(OverviewObject(a, b, c)) : <<a, b, c>> \in
     {t \in Groups \X Groups \X Groups :
        /\ Range(t[1]) \cap Range(t[2]) = {}
        /\ Range(t[1]) \cap Range(t[3]) = {}
        /\ Range(t[2]) \cap Range(t[3]) = {}}}

\* A budget as read from the store, and one already carrying an endYear.
Budgets ==
  {[id |-> "s1", startYear |-> 2020, duration |-> 3],
   [id |-> "s2", startYear |-> 2024, duration |-> 1, endYear |-> 1999]}

\* An element of the shared list: a budget, or (untyped any[]) an array.
SharedElements ==
  {[isArray |-> FALSE, items |-> <<b>>] : b \in Budgets}
    \cup {[isArray |-> TRUE, items |-> s] : s \in SeqsUpTo(Budgets, 1)}

SharedValues ==
  {Undefined} \cup {Some(s) : s \in SeqsUpTo(SharedElements, MaxShared)}

\* ---- the reactive graph ----

\* allBudgets is re-evaluated (by the template's read during the change
\* detection that follows a signal change) on the current signal values.
Evaluate(ov, budgets) ==
  LET r == ComputeAllBudgets(ov, budgets)
      rerun == ov = overview /\ budgets = sharedBudgets
  IN
  /\ allBudgets' = r.out
  /\ sharedBudgets' = r.sharedAfter
  /\ lastRun' = [before |-> [overview |-> ov, sharedBudgets |-> budgets],
                 rerun |-> rerun,
                 prevOut |-> IF rerun THEN allBudgets ELSE EmptyBudgets]

\* _orgBudgets$$.get() emits v
OverviewEmits(v) ==
  /\ overview' = v
  /\ overviewEmitted' = TRUE
  /\ Evaluate(v, sharedBudgets)
  /\ UNCHANGED budgetsEmitted
  /\ UNCHANGED <<noteVars, promoteVars, tableVars, translated>>

\* _budgets$$.get() emits v
SharedBudgetsEmits(v) ==
  /\ budgetsEmitted' = TRUE
  /\ Evaluate(overview, v)
  /\ UNCHANGED <<overview, overviewEmitted>>
  /\ UNCHANGED <<noteVars, promoteVars, tableVars, translated>>

InitPage ==
  /\ overview = Some(OverviewInitial)
  /\ sharedBudgets = Some(SharedBudgetsInitial)
  /\ overviewEmitted = FALSE
  /\ budgetsEmitted = FALSE
  /\ allBudgets =
       ComputeAllBudgets(Some(OverviewInitial), Some(SharedBudgetsInitial)).out
  /\ lastRun = [before |-> [overview |-> Some(OverviewInitial),
                            sharedBudgets |-> Some(SharedBudgetsInitial)],
                rerun |-> FALSE,
                prevOut |-> EmptyBudgets]

NextPage ==
  \/ \E v \in OverviewValues : OverviewEmits(v)
  \/ \E v \in SharedValues : SharedBudgetsEmits(v)


----------------------------------------------------------------------------
(* SelectBudgetPageComponent.setActive *)

\* BudgetStatus.InUse
InUse == 1

\* The BudgetRecords the page can be asked to activate.
RecordIds == {"r1", "r2", "r3"}

\* Their budgets as read: with both presentation-only fields, with one, with
\* none.
BudgetOf(r) ==
  CASE r = "r1" -> [id |-> "r1", status |-> 0, startYear |-> 2020,
                    canBeActivated |-> TRUE, access |-> "owner"]
    [] r = "r2" -> [id |-> "r2", status |-> 9, startYear |-> 2021,
                    access |-> "edit"]
    [] OTHER -> [id |-> "r3", status |-> 1, startYear |-> 2022]

\* Errors the store's update may fail with.
UpdateErrors == {"permission-denied"}

\* Mutant: the access descriptor is left on the budget that is saved.
ToSaveKeepsAccess(budget) ==
  SetKey(DeleteKey(budget, "canBeActivated"), "status", InUse)

\* toSave after `delete canBeActivated; delete access; status = InUse`
ToSave(budget) ==
  SetKey(DeleteKey(DeleteKey(budget, "canBeActivated"), "access"),
         "status", InUse)

\* setActive works on ___cloneDeep(record.budget): `toSave` is what it sends,
\* `budget` is record.budget as setActive leaves it.
SetActiveEffect(budget) == [toSave |-> ToSave(budget), budget |-> budget]

\* Mutant: the error callback is missing, so the flag stays and the error
\* surfaces as an unhandled exception.
OnUpdateErrorUnhandled(flag, error) ==
  [updating |-> flag, logged |-> "", thrown |-> TRUE]

\* error: (error) => { record.updating = false; this._logger.log(...) }
OnUpdateError(flag, error) ==
  [updating |-> FALSE, logged |-> "Error updating budget", thrown |-> FALSE]

\* next: () => { record.updating = false; this._logger.log(...) }
OnUpdateNext(flag) ==
  [updating |-> FALSE, logged |-> "Updated Budget", thrown |-> FALSE]

\* setActive(record)
setActive(r) ==
  LET effect == SetActiveEffect(recordBudget[r]) IN
  /\ sent < MaxSetActive
  /\ sent' = sent + 1
  /\ recordBudget' = [recordBudget EXCEPT ![r] = effect.budget]
  /\ updating' = [updating EXCEPT ![r] = TRUE]
  /\ inFlight' = inFlight \cup
       {[n |-> sent + 1, record |-> r, toSave |-> effect.toSave]}
  /\ lastEvent' = [kind |-> "setActive", record |-> r, logged |-> "",
                   thrown |-> FALSE]
  /\ UNCHANGED givenBudget
  /\ UNCHANGED <<noteVars, pageVars, tableVars, translated>>

\* The observable of _budgets$$.update(toSave) emits: the next callback runs.
UpdateNext(request) ==
  LET out == OnUpdateNext(updating[request.record]) IN
  /\ request \in inFlight
  /\ inFlight' = inFlight \ {request}
  /\ updating' = [updating EXCEPT ![request.record] = out.updating]
  /\ lastEvent' = [kind |-> "next", record |-> request.record,
                   logged |-> out.logged, thrown |-> out.thrown]
  /\ UNCHANGED <<recordBudget, givenBudget, sent>>
  /\ UNCHANGED <<noteVars, pageVars, tableVars, translated>>

\* The observable of _budgets$$.update(toSave) fails: the error callback runs.
UpdateError(request, error) ==
  LET out == OnUpdateError(updating[request.record], error) IN
  /\ request \in inFlight
  /\ inFlight' = inFlight \ {request}
  /\ updating' = [updating EXCEPT ![request.record] = out.updating]
  /\ lastEvent' = [kind |-> "error", record |-> request.record,
                   logged |-> out.logged, thrown |-> out.thrown]
  /\ UNCHANGED <<recordBudget, givenBudget, sent>>
  /\ UNCHANGED <<noteVars, pageVars, tableVars, translated>>

\* The store settles one of the update calls.
UpdateSettles ==
  \E request \in inFlight :
    \/ UpdateNext(request)
    \/ \E error \in UpdateErrors : UpdateError(request, error)

\* A record carries no `updating` property until setActive sets it; an
\* absent property reads as false.
InitPromote ==
  /\ recordBudget = [r \in RecordIds |-> BudgetOf(r)]
  /\ givenBudget = recordBudget
  /\ updating = [r \in RecordIds |-> FALSE]
  /\ inFlight = {}
  /\ sent = 0
  /\ lastEvent = [kind |-> "none", record |-> "", logged |-> "",
                  thrown |-> FALSE]

NextPromote ==
  \/ \E r \in RecordIds : setActive(r)
  \/ UpdateSettles

----------------------------------------------------------------------------
(* BudgetTableComponent *)

\* Mutant: the case of the deleted status (-1) is missing.
translateStatusNoDeleted(status) ==
  CASE status = 1 -> "BUDGET.STATUS.ACTIVE"
    [] status = 0 -> "BUDGET.STATUS.DESIGN"
    [] status = 9 -> "BUDGET.STATUS.NO-USE"
    [] OTHER -> ""

\* translateStatus(status)
translateStatus(status) ==
  CASE status = 1 -> "BUDGET.STATUS.ACTIVE"
    [] status = 0 -> "BUDGET.STATUS.DESIGN"
    [] status = 9 -> "BUDGET.STATUS.NO-USE"
    [] status = -1 -> "BUDGET.STATUS.DELETED"
    [] OTHER -> ""

StatusInputs == -60 .. 60

\* A call of translateStatus(status).
TranslateStatus(status) ==
  /\ translated' = [called |-> TRUE, status |-> status,
                    label |-> translateStatus(status)]
  /\ UNCHANGED <<noteVars, pageVars, promoteVars, tableVars>>

InitStatus == translated = [called |-> FALSE, status |-> 0, label |-> ""]

NextStatus == \E status \in StatusInputs : TranslateStatus(status)

\* ---- inputs ----

\* A BudgetRecord of the overview, with its child records.
TableRecord(id, childIds) ==
  [budget |-> [id |-> id],
   children |-> [i \in DOMAIN childIds |->
                   [budget |-> [id |-> childIds[i]], children |-> <<>>]]]

\* Values the page binds to the `budgets` input.
TableInputs ==
  {Undefined,
   Some([overview |-> <<TableRecord("p1", <<"c1", "c2">>),
                        TableRecord("p2", <<>>)>>,
         budgets |-> <<[id |-> "s1", startYear |-> 2020, duration |-> 3,
                        endYear |-> 2022]>>])}

\* Budgets the children dialog is asked for (by id); "p3" is in no overview.
ParentIds == {"p1", "p3"}

\* `parent` arguments of the share and clone dialogs.
DialogParents == {"null", "false", "p1"}

FilterInputs == {<<>>, <<" ", "A", "b", " ">>}

NavBudgetIds == {"p1"}
NavActions == {"view", "edit"}
NavOutcomes == {"true", "false", "rejected"}

\* ---- the effect and the view ----

\* Mutant: the effect refreshes the table data but not the cached overview.
EffectWritesDataOnly(budgetsData, cache, data) ==
  [overviewBudgets |-> cache, data |-> budgetsData.budgets]

\* this.overviewBudgets = budgetsData.overview;
\* this.dataSource.data = budgetsData.budgets;
EffectWrites(budgetsData, cache, data) ==
  [overviewBudgets |-> budgetsData.overview, data |-> budgetsData.budgets]

\* The page binds a new value to `budgets`; the effect is scheduled.
BudgetsInputChanges(v) ==
  /\ budgetsInput' = v
  /\ effectPending' = TRUE
  /\ UNCHANGED <<viewInit, overviewBudgets, dataSource, canPromote, doPromote,
                 promoteLog, lastDialog, dialogOpen, navPending, navLog,
                 closeAllCalls, lastNav>>
  /\ UNCHANGED <<noteVars, pageVars, promoteVars, translated>>

\* effect(() => { const budgetsData = this.budgets(); if (budgetsData) ... })
EffectRuns ==
  /\ effectPending
  /\ effectPending' = FALSE
  /\ IF budgetsInput.defined
       THEN LET w == EffectWrites(budgetsInput.value, overviewBudgets,
                                  dataSource.data)
            IN /\ overviewBudgets' = w.overviewBudgets
               /\ dataSource' = [dataSource EXCEPT !.data = w.data]
       ELSE UNCHANGED <<overviewBudgets, dataSource>>
  /\ UNCHANGED <<budgetsInput, viewInit, canPromote, doPromote, promoteLog,
                 lastDialog, dialogOpen, navPending, navLog, closeAllCalls,
                 lastNav>>
  /\ UNCHANGED <<noteVars, pageVars, promoteVars, translated>>

\* ngAfterViewInit()
ngAfterViewInit ==
  /\ ~viewInit
  /\ viewInit' = TRUE
  /\ dataSource' =
       [dataSource EXCEPT
          !.paginator = TRUE,
          !.sort = TRUE,
          !.data = IF budgetsInput.defined
                     THEN budgetsInput.value.budgets
                     ELSE @]
  /\ UNCHANGED <<budgetsInput, effectPending, overviewBudgets, canPromote,
                 doPromote, promoteLog, lastDialog, dialogOpen, navPending,
                 navLog, closeAllCalls, lastNav>>
  /\ UNCHANGED <<noteVars, pageVars, promoteVars, translated>>

\* String.prototype.toLowerCase, on the letters the inputs use.
LowerChar(c) == CASE c = "A" -> "a" [] c = "B" -> "b" [] OTHER -> c
ToLowerCase(s) == [i \in DOMAIN s |-> LowerChar(s[i])]

\* filterAccountRecords(event)
filterAccountRecords(filterValue) ==
  /\ dataSource' = [dataSource EXCEPT !.filter = ToLowerCase(Trim(filterValue))]
  /\ UNCHANGED <<budgetsInput, effectPending, viewInit, overviewBudgets, canPromote,
                 doPromote, promoteLog, lastDialog, dialogOpen, navPending,
                 navLog, closeAllCalls, lastNav>>
  /\ UNCHANGED <<noteVars, pageVars, promoteVars, translated>>

\* ---- promote ----

\* Mutant: promote() emits whatever canPromote is.
PromoteEmitsAlways(allowed) == TRUE

\* if (this.canPromote()) this.doPromote.emit();
PromoteEmits(allowed) == allowed

\* The page binds a new value to `canPromote`.
CanPromoteChanges(v) ==
  /\ canPromote' = v
  /\ UNCHANGED <<budgetsInput, effectPending, viewInit, overviewBudgets, dataSource,
                 doPromote, promoteLog, lastDialog, dialogOpen, navPending,
                 navLog, closeAllCalls, lastNav>>
  /\ UNCHANGED <<noteVars, pageVars, promoteVars, translated>>

\* promote()
promote ==
  /\ promoteLog.allowed + promoteLog.refused < MaxPromotes
  /\ promoteLog' = IF canPromote
                     THEN [promoteLog EXCEPT !.allowed = @ + 1]
                     ELSE [promoteLog EXCEPT !.refused = @ + 1]
  /\ doPromote' = IF PromoteEmits(canPromote) THEN doPromote + 1 ELSE doPromote
  /\ UNCHANGED <<budgetsInput, effectPending, viewInit, overviewBudgets, dataSource,
                 canPromote, lastDialog, dialogOpen, navPending, navLog,
                 closeAllCalls, lastNav>>
  /\ UNCHANGED <<noteVars, pageVars, promoteVars, translated>>

\* ---- dialogs ----

NoDialog ==
  [component |-> "none", parent |-> "", budgets |-> Undefined,
   threw |-> FALSE, matched |-> FALSE]

\* data: parent != null ? parent : false
DialogData(parent) == IF parent # "null" THEN parent ELSE "false"

OpenDialog(request) ==
  /\ lastDialog' = request
  /\ dialogOpen' = TRUE
  /\ UNCHANGED <<budgetsInput, effectPending, viewInit, overviewBudgets, dataSource,
                 canPromote, doPromote, promoteLog, navPending, navLog,
                 closeAllCalls, lastNav>>
  /\ UNCHANGED <<noteVars, pageVars, promoteVars, translated>>

\* openShareBudgetDialog(parent)
openShareBudgetDialog(parent) ==
  OpenDialog([NoDialog EXCEPT !.component = "ShareBudgetModalComponent",
                              !.parent = DialogData(parent)])

\* openCloneBudgetDialog(parent)
openCloneBudgetDialog(parent) ==
  OpenDialog([NoDialog EXCEPT !.component = "CreateBudgetModalComponent",
                              !.parent = DialogData(parent)])

\* Positions of the cached records whose budget has the parent's id.
Matches(cache, parentId) ==
  {i \in DOMAIN cache : cache[i].budget.id = parentId}

\* Array.prototype.find: the first match.
Find(cache, parentId) ==
  cache[CHOOSE i \in Matches(cache, parentId) :
          \A j \in Matches(cache, parentId) : i <= j]

\* Mutant: `.children` is read from the result of find without `?.`.
ChildrenOfNoGuard(cache, parentId) ==
  IF Matches(cache, parentId) = {}
    THEN [threw |-> TRUE, children |-> Undefined]
    ELSE [threw |-> FALSE,
          children |->
            Some([i \in DOMAIN Find(cache, parentId).children |->
                    Find(cache, parentId).children[i].budget])]

\* let children = this.overviewBudgets.find(...)!?.children;
\* children = children?.map((child) => child.budget)
ChildrenOf(cache, parentId) ==
  IF Matches(cache, parentId) = {}
    THEN [threw |-> FALSE, children |-> Undefined]
    ELSE [threw |-> FALSE,
          children |->
            Some([i \in DOMAIN Find(cache, parentId).children |->
                    Find(cache, parentId).children[i].budget])]

\* openChildBudgetDialog(parent)
openChildBudgetDialog(parentId) ==
  LET found == ChildrenOf(overviewBudgets, parentId)
      matched == \E i \in DOMAIN overviewBudgets :
                   overviewBudgets[i].budget.id = parentId
  IN
  IF found.threw
    THEN \* a TypeError leaves the method before _dialog.open
         /\ lastDialog' = [NoDialog EXCEPT !.parent = parentId,
                                           !.threw = TRUE,
                                           !.matched = matched]
         /\ UNCHANGED <<budgetsInput, effectPending, viewInit, overviewBudgets,
                        dataSource, canPromote, doPromote, promoteLog,
                        dialogOpen, navPending, navLog, closeAllCalls, lastNav>>
         /\ UNCHANGED <<noteVars, pageVars, promoteVars, translated>>
    ELSE OpenDialog([component |-> "ChildBudgetsModalComponent",
                     parent |-> parentId, budgets |-> found.children,
                     threw |-> FALSE, matched |-> matched])

\* ---- navigation ----

\* Mutant: `.then(this._dialog.closeAll())`: closeAll is called while the
\* argument of then is evaluated, and then is given no callback.
ThenCallbackRunsEagerly(phase) == phase = "requested"

\* `.then(() => this._dialog.closeAll())`: the callback of a one-argument
\* then runs when the promise is fulfilled, and only then.
ThenCallbackRuns(phase) == phase = "fulfilled"

\* What one phase of goToDetail does to the dialogs and its log.
NavPhase(phase, result) ==
  /\ lastNav' = [kind |-> phase, result |-> result,
                 closed |-> ThenCallbackRuns(phase),
                 callerObserved |-> FALSE]
  /\ IF ThenCallbackRuns(phase)
       THEN closeAllCalls' = closeAllCalls + 1 /\ dialogOpen' = FALSE
       ELSE UNCHANGED <<closeAllCalls, dialogOpen>>

\* goToDetail(budgetId, action): returns nothing; the promise of
\* navigate(...).then(...) is dropped.
goToDetail(budgetId, action) ==
  /\ navLog.requested < MaxNavigations
  /\ navLog' = [navLog EXCEPT !.requested = @ + 1]
  /\ navPending' = navPending \cup
       {[n |-> navLog.requested + 1, budgetId |-> budgetId, action |-> action,
         route |-> <<"budgets", budgetId, action>>]}
  /\ NavPhase("requested", "none")
  /\ UNCHANGED <<budgetsInput, effectPending, viewInit, overviewBudgets, dataSource,
                 canPromote, doPromote, promoteLog, lastDialog>>
  /\ UNCHANGED <<noteVars, pageVars, promoteVars, translated>>

\* The promise of Router.navigate settles: fulfilled with true (navigated),
\* fulfilled with false (navigation failed), or rejected (error).
NavigationSettles(request, outcome) ==
  /\ request \in navPending
  /\ navPending' = navPending \ {request}
  /\ IF outcome = "rejected"
       THEN /\ navLog' = [navLog EXCEPT !.rejected = @ + 1]
            /\ NavPhase("rejected", outcome)
       ELSE /\ navLog' = [navLog EXCEPT !.fulfilled = @ + 1]
            /\ NavPhase("fulfilled", outcome)
  /\ UNCHANGED <<budgetsInput, effectPending, viewInit, overviewBudgets, dataSource,
                 canPromote, doPromote, promoteLog, lastDialog>>
  /\ UNCHANGED <<noteVars, pageVars, promoteVars, translated>>

InitTable ==
  /\ budgetsInput = Some(EmptyBudgets)
  /\ effectPending = TRUE
  /\ viewInit = FALSE
  /\ overviewBudgets = <<>>
  /\ dataSource = [data |-> <<>>, filter |-> <<>>, paginator |-> FALSE,
                   sort |-> FALSE]
  /\ canPromote = FALSE
  /\ doPromote = 0
  /\ promoteLog = [allowed |-> 0, refused |-> 0]
  /\ lastDialog = NoDialog
  /\ dialogOpen = FALSE
  /\ navPending = {}
  /\ navLog = [requested |-> 0, fulfilled |-> 0, rejected |-> 0]
  /\ closeAllCalls = 0
  /\ lastNav = [kind |-> "none", result |-> "none", closed |-> FALSE,
                callerObserved |-> FALSE]

NextTable ==
  \/ \E v \in TableInputs : BudgetsInputChanges(v)
  \/ EffectRuns
  \/ ngAfterViewInit
  \/ \E text \in FilterInputs : filterAccountRecords(text)
  \/ \E v \in BOOLEAN : CanPromoteChanges(v)
  \/ promote
  \/ \E parent \in DialogParents : openShareBudgetDialog(parent)
  \/ \E parent \in DialogParents : openCloneBudgetDialog(parent)
  \/ \E parentId \in ParentIds : openChildBudgetDialog(parentId)
  \/ \E budgetId \in NavBudgetIds, action \in NavActions :
       goToDetail(budgetId, action)
  \/ \E request \in navPending, outcome \in NavOutcomes :
       NavigationSettles(request, outcome)

----------------------------------------------------------------------------
(* Specifications *)

Init == InitNote /\ InitPage /\ InitPromote /\ InitTable /\ InitStatus

Next == NextNote \/ NextPage \/ NextPromote \/ NextTable \/ NextStatus

\* The whole program.
Spec == Init /\ [][Next]_vars

\* The add-note handler alone.
SpecNote == Init /\ [][NextNote]_vars

\* The budget selection page alone.
SpecPage == Init /\ [][NextPage]_vars

\* Activation of budgets alone.
SpecPromote == Init /\ [][NextPromote]_vars

\* The budget table alone.
SpecTable == Init /\ [][NextTable]_vars

\* translateStatus alone.
SpecStatus == Init /\ [][NextStatus]_vars

\* Activation of budgets, every update call settling: the store's observable
\* emits or fails.
SpecPromoteFair == SpecPromote /\ WF_vars(UpdateSettles)

----------------------------------------------------------------------------
(* Properties of AddNoteToBudgetHandler.execute *)

\* Missing, empty or whitespace-only.
Blank(x) == ~x.defined \/ \A i \in DOMAIN x.value : x.value[i] \in Whitespace

\* The text with its leading and trailing whitespace removed, stated
\* directly: the longest whitespace-free-ended segment.
Stripped(s) ==
  LET solid == {i \in DOMAIN s : s[i] \notin Whitespace} IN
  IF solid = {} THEN <<>>
  ELSE LET lo == CHOOSE i \in solid : \A j \in solid : i <= j
           hi == CHOOSE i \in solid : \A j \in solid : j <= i
       IN SubSeq(s, lo, hi)

\* orgs/{orgId}/budgets/{budgetId}/notes
NotesPath(orgId, budgetId) ==
  <<"o", "r", "g", "s", "/">> \o orgId
    \o <<"/", "b", "u", "d", "g", "e", "t", "s", "/">> \o budgetId
    \o <<"/", "n", "o", "t", "e", "s">>

Executed == lastOutcome.status # "none"

\* C1: a command whose content, budgetId and orgId are all non-empty after
\* trimming, and whose create succeeds returning n, stores a note with the
\* trimmed content under orgs/{orgId}/budgets/{budgetId}/notes and returns
\* {id: n, noteId: n, budgetId, content: trimmed content}.
C1_SuccessStoresAndEchoes ==
  (/\ Executed
   /\ ~Blank(lastCmd.content) /\ ~Blank(lastCmd.budgetId) /\ ~Blank(lastCmd.orgId)
   /\ repoLog.response \notin RepoErrors)
  =>
  LET n == repoLog.createdId
      text == Stripped(lastCmd.content.value)
  IN
  /\ repoLog.response = "created"
  /\ lastOutcome.status = "returned"
  /\ \E i \in DOMAIN notes :
       notes[i] = [path |-> NotesPath(lastCmd.orgId.value, lastCmd.budgetId.value),
                   id |-> n, note |-> text]
  /\ lastOutcome.result.id = n
  /\ lastOutcome.result.noteId = n
  /\ lastOutcome.result.id = lastOutcome.result.noteId
  /\ lastOutcome.result.budgetId = lastCmd.budgetId
  /\ lastOutcome.result.content = Some(text)

\* execute({orgId: "o1", budgetId: "b1", content: " hi "}) returned, with
\* note "hi" stored under orgs/o1/budgets/b1/notes.
C1_Witness ==
  /\ lastCmd = [orgId |-> Some(<<"o", "1">>), budgetId |-> Some(<<"b", "1">>),
                content |-> Some(<<" ", "h", "i", " ">>)]
  /\ lastOutcome.status = "returned"
  /\ lastOutcome.result.content = Some(<<"h", "i">>)
  /\ \E i \in DOMAIN notes :
       /\ notes[i].note = <<"h", "i">>
       /\ notes[i].path =
            <<"o", "r", "g", "s", "/", "o", "1", "/", "b", "u", "d", "g", "e",
              "t", "s", "/", "b", "1", "/", "n", "o", "t", "e", "s">>

\* C2: execute rejects with the error of the failing field when that field
\* is missing, empty or whitespace-only: content; budgetId (content valid);
\* orgId (content and budgetId valid).
C2_RejectsEmptyField ==
  Executed =>
    /\ Blank(lastCmd.content) =>
         lastOutcome.status = "threw" /\ lastOutcome.error = ContentError
    /\ (~Blank(lastCmd.content) /\ Blank(lastCmd.budgetId)) =>
         lastOutcome.status = "threw" /\ lastOutcome.error = BudgetIdError
    /\ (~Blank(lastCmd.content) /\ ~Blank(lastCmd.budgetId)
          /\ Blank(lastCmd.orgId)) =>
         lastOutcome.status = "threw" /\ lastOutcome.error = OrgIdError

\* execute({orgId: "", budgetId: "b1", content: "x"}) threw the
\* organisation-ID error.
C2_Witness ==
  /\ lastCmd = [orgId |-> Some(<<>>), budgetId |-> Some(<<"b", "1">>),
                content |-> Some(<<"x">>)]
  /\ lastOutcome.status = "threw"
  /\ lastOutcome.error = OrgIdError

\* C3: validation is fail-fast in the order content, budgetId, orgId: with
\* several fields invalid the error is that of the first invalid one.
C3_FailFastOrder ==
  Executed =>
    /\ (Blank(lastCmd.content)
          /\ (Blank(lastCmd.budgetId) \/ Blank(lastCmd.orgId))) =>
         lastOutcome.error = ContentError
    /\ (~Blank(lastCmd.content) /\ Blank(lastCmd.budgetId)
          /\ Blank(lastCmd.orgId)) =>
         lastOutcome.error = BudgetIdError

\* A command with valid content, whitespace-only budgetId and missing orgId
\* threw the budget-ID error.
C3_Witness ==
  /\ ~Blank(lastCmd.content)
  /\ lastCmd.budgetId = Some(<<"\t">>)
  /\ lastCmd.orgId = Undefined
  /\ lastOutcome.status = "threw"
  /\ lastOutcome.error = BudgetIdError

\* Number of successful executes addressed to <<orgId, budgetId>>.
Successes(pair) == Cardinality({i \in DOMAIN okLog : okLog[i] = pair})

\* C4: each successful execute creates exactly one note, in the collection
\* of the command's (orgId, budgetId), under an identifier the repository
\* assigned; the number of notes in each (orgId, budgetId) collection equals
\* the number of successful executes addressed to that pair.
C4_OneNotePerSuccess ==
  /\ Len(notes) = Len(okLog)
  /\ \A i, j \in DOMAIN notes : i # j => notes[i].id # notes[j].id
  /\ lastOutcome.status = "returned" =>
       /\ lastOutcome.result.id = repoLog.createdId
       /\ notes[Len(notes)].id = repoLog.createdId
  /\ \A o \in OrgIds, b \in BudgetIds :
       (~Blank(o) /\ ~Blank(b)) =>
         Len(Collection(NotesPath(o.value, b.value))) = Successes(<<o, b>>)

\* The same command executed twice left two notes in its collection, and
\* none in the collection of the same organisation's other budget.
C4_Witness ==
  /\ Successes(<<Some(<<"o", "1">>), Some(<<"b", "1">>)>>) = 2
  /\ Len(Collection(NotesPath(<<"o", "1">>, <<"b", "1">>))) = 2
  /\ Len(Collection(NotesPath(<<"o", "1">>, <<"b", "2">>))) = 0
  /\ notes[1].note = notes[2].note

\* C5: when create fails for a validated command, execute fails with that
\* same error, having invoked create exactly once, and returns no result.
C5_RepoFailurePropagates ==
  repoLog.response \in RepoErrors =>
    /\ lastOutcome.status = "threw"
    /\ lastOutcome.error = repoLog.response
    /\ repoLog.create = 1
    /\ lastOutcome.result = NoResult

\* A validated command whose create was rejected with "unavailable".
C5_Witness ==
  /\ Validate(lastCmd) = NoError
  /\ repoLog.response = "unavailable"
  /\ lastOutcome.error = "unavailable"

----------------------------------------------------------------------------
(* Properties of SelectBudgetPageComponent.allBudgets *)

\* A source is not loaded while it has not emitted (the signal still holds
\* its initial value) or when what it holds is absent.
NotLoaded(signal, emitted) == ~emitted \/ ~signal.defined

\* C6: whenever the overview or the shared-budgets source is not loaded,
\* allBudgets is {overview: [], budgets: []}.
C6_NotLoadedGivesEmpty ==
  (NotLoaded(overview, overviewEmitted) \/ NotLoaded(sharedBudgets, budgetsEmitted))
    => allBudgets = EmptyBudgets

\* C7: every budget of the aggregated list has
\* endYear = startYear + duration - 1, whatever endYear it came with.
C7_EndYearDerived ==
  \A i \in DOMAIN allBudgets.budgets :
    LET b == allBudgets.budgets[i] IN
    /\ "endYear" \in DOMAIN b
    /\ b.endYear = b.startYear + b.duration - 1

\* An aggregated budget whose input carried another endYear.
C7_Witness ==
  /\ lastRun.before.sharedBudgets.defined
  /\ lastRun.before.overview.defined
  /\ \E i \in DOMAIN allBudgets.budgets :
       LET was == flatMap(lastRun.before.sharedBudgets.value)[i] IN
       /\ "endYear" \in DOMAIN was
       /\ was.endYear = 1999
       /\ allBudgets.budgets[i].endYear = 2024

\* C8: the aggregated overview is inUse, then underConstruction, then
\* archived, each in its own order, and nothing else.
C8_OverviewConcatenation ==
  (overview.defined /\ sharedBudgets.defined) =>
    allBudgets.overview =
      Prop(overview.value, "inUse")
        \o Prop(overview.value, "underConstruction")
        \o Prop(overview.value, "archived")

\* An overview with records under construction and archived, aggregated.
C8_Witness ==
  /\ overview.defined /\ sharedBudgets.defined
  /\ Prop(overview.value, "underConstruction") # <<>>
  /\ Prop(overview.value, "archived") # <<>>
  /\ Len(allBudgets.overview) = 2

\* C9: the evaluation leaves its inputs as they were.
C9_InputsNotMutated ==
  /\ overview = lastRun.before.overview
  /\ sharedBudgets = lastRun.before.sharedBudgets

\* C10: evaluating again on the same inputs gives an equal output, also
\* when the budgets already carry the endYear of the earlier evaluation.
C10_Idempotent ==
  lastRun.rerun => allBudgets = lastRun.prevOut

\* A re-evaluation whose input budgets all carried an endYear already.
C10_Witness ==
  /\ lastRun.rerun
  /\ allBudgets.budgets # <<>>
  /\ \A i \in DOMAIN allBudgets.budgets :
       "endYear" \in DOMAIN flatMap(lastRun.before.sharedBudgets.value)[i]
  /\ \E i \in DOMAIN allBudgets.budgets : allBudgets.budgets[i].id = "s1"

----------------------------------------------------------------------------
(* Properties of SelectBudgetPageComponent.setActive *)

Pending(r) == {request \in inFlight : request.record = r}

\* C11: a record's updating flag is true as long as at least one update
\* request issued for it has not completed.
C11_UpdatingWhileInFlight ==
  \A r \in RecordIds : Pending(r) # {} => updating[r]

LifecycleStep ==
  /\ lastEvent.kind = "setActive" => updating[lastEvent.record]
  /\ lastEvent.kind \in {"next", "error"} => ~updating[lastEvent.record]
  /\ lastEvent.kind = "error" => lastEvent.logged = "Error updating budget"
  /\ ~lastEvent.thrown

\* C12: updating becomes true when the update request is sent and false when
\* the update completes, by success or by failure; a failure is logged and
\* not thrown; and, update calls settling, updating is eventually false.
C12_UpdatingLifecycle ==
  /\ []LifecycleStep
  /\ \A r \in RecordIds : updating[r] ~> ~updating[r]

\* A failed update has been logged and has reset the flag.
C12_Witness ==
  /\ lastEvent.kind = "error"
  /\ lastEvent.logged = "Error updating budget"
  /\ ~updating[lastEvent.record]
  /\ Pending(lastEvent.record) = {}

\* C13: every budget passed to the store's update has neither canBeActivated
\* nor access, has status InUse and otherwise equals the record's budget,
\* which stays as it was.
C13_SanitizedUpdate ==
  /\ \A request \in inFlight :
       LET given == givenBudget[request.record]
           kept == (DOMAIN given) \ {"canBeActivated", "access", "status"}
       IN
       /\ DOMAIN request.toSave = kept \cup {"status"}
       /\ request.toSave.status = 1
       /\ \A k \in kept : request.toSave[k] = given[k]
  /\ recordBudget = givenBudget

\* An update in flight for a record whose budget carries canBeActivated,
\* access and a status other than InUse.
C13_Witness ==
  \E request \in inFlight :
    LET b == recordBudget[request.record] IN
    /\ {"canBeActivated", "access"} \subseteq DOMAIN b
    /\ b.status = 0
    /\ request.toSave.status = 1
    /\ request.toSave.id = b.id

----------------------------------------------------------------------------
(* Properties of BudgetTableComponent *)

\* C14 as stated: translateStatus maps 1 to "active", 0 to "design", 9 to
\* "no-use", -1 to "deleted" and every other integer to the empty string.
C14_PlainLabels ==
  translated.called =>
    translated.label = CASE translated.status = 1 -> "active"
                         [] translated.status = 0 -> "design"
                         [] translated.status = 9 -> "no-use"
                         [] translated.status = -1 -> "deleted"
                         [] OTHER -> ""

\* C14 amended: translateStatus maps 1, 0, 9 and -1 to the translation keys
\* BUDGET.STATUS.ACTIVE, .DESIGN, .NO-USE and .DELETED, and every other
\* integer to the empty string.
C14_TranslationKeys ==
  translated.called =>
    /\ translated.status = 1 => translated.label = "BUDGET.STATUS.ACTIVE"
    /\ translated.status = 0 => translated.label = "BUDGET.STATUS.DESIGN"
    /\ translated.status = 9 => translated.label = "BUDGET.STATUS.NO-USE"
    /\ translated.status = -1 => translated.label = "BUDGET.STATUS.DELETED"
    /\ translated.status \notin {1, 0, 9, -1} => translated.label = ""

\* translateStatus(-1) has returned the key of the deleted status.
C14_Witness ==
  /\ translated.called
  /\ translated.status = -1
  /\ translated.label = "BUDGET.STATUS.DELETED"

\* The state of the table other than the log of promote() calls.
TableState ==
  <<budgetsInput, effectPending, viewInit, overviewBudgets, dataSource,
    canPromote, doPromote, lastDialog, dialogOpen, navPending, navLog,
    closeAllCalls, lastNav>>

\* C15: promote() emits doPromote iff canPromote is true at the call; with
\* canPromote false it emits nothing and changes no state; the number of
\* emissions equals the number of calls made while canPromote was true.
C15_PromoteEmitsIffAllowed ==
  /\ [](doPromote = promoteLog.allowed)
  /\ [][/\ promoteLog'.allowed = promoteLog.allowed + 1
           => canPromote /\ doPromote' = doPromote + 1
        /\ promoteLog'.refused = promoteLog.refused + 1
           => ~canPromote /\ TableState' = TableState]_vars

\* promote() has been called once with canPromote true and once with
\* canPromote false, and has emitted once.
C15_Witness ==
  /\ promoteLog.allowed = 1
  /\ promoteLog.refused = 1
  /\ doPromote = 1

ChildrenRequested ==
  lastDialog.threw \/ lastDialog.component = "ChildBudgetsModalComponent"

\* C16: when no cached overview record has the parent's id (the cache may be
\* empty), openChildBudgetDialog does not throw and opens the children
\* dialog with the parent and undefined children.
C16_LookupMissOpensDialog ==
  (ChildrenRequested /\ ~lastDialog.matched) =>
    /\ ~lastDialog.threw
    /\ lastDialog.component = "ChildBudgetsModalComponent"
    /\ lastDialog.parent \in ParentIds
    /\ lastDialog.budgets = Undefined
    /\ dialogOpen \/ closeAllCalls > 0

\* The children dialog was opened for "p3" while the cache held records,
\* none of them with that id.
C16_Witness ==
  /\ lastDialog.component = "ChildBudgetsModalComponent"
  /\ lastDialog.parent = "p3"
  /\ ~lastDialog.matched
  /\ lastDialog.budgets = Undefined
  /\ overviewBudgets # <<>>
  /\ dialogOpen

\* C17: goToDetail requests the route <<"budgets", budgetId, action>>; the
\* dialogs are closed only when that navigation has completed, never at the
\* request, and once per completed navigation.
C17_ClosesOnCompletion ==
  /\ \A request \in navPending :
       request.route = <<"budgets">> \o <<request.budgetId>>
                         \o <<request.action>>
  /\ Cardinality(navPending) = navLog.requested - navLog.fulfilled
                                 - navLog.rejected
  /\ closeAllCalls = navLog.fulfilled
  /\ lastNav.kind = "requested" => ~lastNav.closed
  /\ lastNav.closed => lastNav.kind = "fulfilled"

\* A navigation has completed and closed the dialog that was open.
C17_Witness ==
  /\ lastNav.kind = "fulfilled"
  /\ lastNav.result = "true"
  /\ lastNav.closed
  /\ closeAllCalls = 1
  /\ lastDialog.component # "none"
  /\ ~dialogOpen

NavigationFailed ==
  \/ lastNav.kind = "rejected"
  \/ lastNav.kind = "fulfilled" /\ lastNav.result = "false"

\* C18: when the navigation fails, the caller of goToDetail observes the
\* failure and the dialogs are not closed for that navigation.
C18_FailurePropagates ==
  NavigationFailed => lastNav.callerObserved /\ ~lastNav.closed

EffectStep == effectPending /\ ~effectPending'

ViewInitStep == ~viewInit /\ viewInit'

\* C19: once the effect has run for the latest value v of the budgets input,
\* overviewBudgets is v.overview and dataSource.data is v.budgets; only the
\* effect writes overviewBudgets, and only the effect and ngAfterViewInit
\* write dataSource.data.
C19_CacheFollowsInput ==
  /\ []((~effectPending /\ budgetsInput.defined) =>
          /\ overviewBudgets = budgetsInput.value.overview
          /\ dataSource.data = budgetsInput.value.budgets)
  /\ [][/\ overviewBudgets' # overviewBudgets => EffectStep
        /\ dataSource'.data # dataSource.data => EffectStep \/ ViewInitStep]_vars

\* The effect has run for a value with two overview records, after promote,
\* dialogs, a navigation and a filter.
C19_Witness ==
  /\ ~effectPending
  /\ budgetsInput.defined
  /\ Len(overviewBudgets) = 2
  /\ overviewBudgets = budgetsInput.value.overview
  /\ dataSource.data = budgetsInput.value.budgets
  /\ dataSource.data # <<>>
  /\ dataSource.filter = <<"a", "b">>
  /\ doPromote > 0
  /\ lastDialog.component = "ChildBudgetsModalComponent"
  /\ navLog.fulfilled > 0

----------------------------------------------------------------------------
(* Properties of AddNoteToBudgetHandler.execute, continued *)

RejectedOnValidation(command) ==
  Blank(command.content) \/ Blank(command.budgetId) \/ Blank(command.orgId)

\* C20: a call rejected on validation has called neither getRepository nor
\* create, and the stored notes are as they were before the call.
C20_RejectionTouchesNoRepository ==
  /\ []((Executed /\ RejectedOnValidation(lastCmd)) =>
          /\ lastOutcome.status = "threw"
          /\ repoLog.getRepository = 0
          /\ repoLog.create = 0)
  /\ [][(calls' = calls + 1 /\ RejectedOnValidation(lastCmd')) =>
          notes' = notes /\ nextId' = nextId]_vars

\* A command with blank content was rejected while a note was stored.
C20_Witness ==
  /\ Executed
  /\ Blank(lastCmd.content)
  /\ lastOutcome.status = "threw"
  /\ repoLog.getRepository = 0
  /\ Len(notes) = 1

\* The value has leading or trailing whitespace and is not empty once it is
\* removed.
Padded(x) == ~Blank(x) /\ Stripped(x.value) # x.value

ValidationErrors ==
  {"Note content cannot be empty", "Budget ID cannot be empty",
   "Organisation ID cannot be empty"}

\* C21: only the content is trimmed. A command whose orgId or budgetId has
\* leading or trailing whitespace and is non-empty after trimming passes
\* validation; its note is stored under the path built from the identifiers
\* as given, whitespace included, and the result echoes the budgetId as given.
C21_IdsUsedAsGiven ==
  (/\ Executed
   /\ ~Blank(lastCmd.content) /\ ~Blank(lastCmd.budgetId) /\ ~Blank(lastCmd.orgId)
   /\ Padded(lastCmd.orgId) \/ Padded(lastCmd.budgetId))
  =>
  /\ lastOutcome.error \notin ValidationErrors
  /\ repoLog.getRepository = 1
  /\ repoLog.path = NotesPath(lastCmd.orgId.value, lastCmd.budgetId.value)
  /\ repoLog.path # NotesPath(Stripped(lastCmd.orgId.value),
                              Stripped(lastCmd.budgetId.value))
  /\ repoLog.response = "created" =>
       /\ lastOutcome.status = "returned"
       /\ \E i \in DOMAIN notes :
            notes[i] = [path |-> NotesPath(lastCmd.orgId.value,
                                           lastCmd.budgetId.value),
                        id |-> repoLog.createdId,
                        note |-> Stripped(lastCmd.content.value)]
       /\ lastOutcome.result.budgetId = lastCmd.budgetId
       /\ lastOutcome.result.budgetId
            # Some(Stripped(lastCmd.budgetId.value))
          \/ ~Padded(lastCmd.budgetId)

\* execute({orgId: " o1", budgetId: "b1 ", content: " hi "}) returned; the
\* note "hi" is stored under "orgs/ o1/budgets/b1 /notes".
C21_Witness ==
  /\ lastCmd = [orgId |-> Some(<<" ", "o", "1">>),
                budgetId |-> Some(<<"b", "1", " ">>),
                content |-> Some(<<" ", "h", "i", " ">>)]
  /\ lastOutcome.status = "returned"
  /\ lastOutcome.result.budgetId = Some(<<"b", "1", " ">>)
  /\ \E i \in DOMAIN notes :
       /\ notes[i].note = <<"h", "i">>
       /\ notes[i].path =
            <<"o", "r", "g", "s", "/", " ", "o", "1", "/", "b", "u", "d", "g",
              "e", "t", "s", "/", "b", "1", " ", "/", "n", "o", "t", "e", "s">>

====
